---- MODULE Spec2Model ----
(***************************************************************************)
(* TMWheels.ino: the poll loop of a Thrustmaster wheel adapter.  Each      *)
(* loop() iteration reads a 5-byte frame from the wheel's shift register,  *)
(* identifies the wheel from the header bits, maps every changed bit       *)
(* through the wheel's button table to a press/release/setHat call on the  *)
(* gamepad report, and sends the report once.                              *)
(***************************************************************************)
EXTENDS Integers, Sequences, FiniteSets, TLC

VARIABLES
    currBytes,          \* byte currBytes[5]: the frame read last (polarity corrected)
    prevBytes,          \* byte prevBytes[5]: the frame of the previous completed cycle
    wheelID,            \* int wheelID: 0 at start, 1 F1, 2 599xx, 3 R383
    wheelIdentified,    \* bool wheelIdentified
    buttonsreset,       \* bool buttonsreset
    joyBtnState,        \* bool joyBtnState
    prevJoyBtnState,    \* bool prevJoyBtnState
    bit2btn,            \* int bit2btn[32]: the working table
    report,             \* the gamepad's in-memory report (buttons pressed, hat)
    hostReport,         \* the report the host received with the last sendReport
    isConnected,        \* what bleGamepad.isConnected() returned to the last loop()
    pc,                 \* "idle": between loop() calls; "recover": inside the while loop
    calls,              \* the calls made by the last step, in order
    cycleCalls          \* the calls made so far by the current loop() iteration

vars == <<currBytes, prevBytes, wheelID, wheelIdentified, buttonsreset, joyBtnState,
          prevJoyBtnState, bit2btn, report, hostReport, isConnected, pc, calls,
          cycleCalls>>

----------------------------------------------------------------------------
(* Bounds of the model *)

\* at most this many of the modelled control lines are active in one frame
MaxActive == 2

\* this many further frames, of all those the bus can deliver, are read
NumExtra == 5

----------------------------------------------------------------------------
(* Constant data *)

pos == <<128, 64, 32, 16, 8, 4, 2, 1>>

NoBtn == <<-1,-1,-1,-1,-1,-1,-1,-1,  -1,-1,-1,-1,-1,-1,-1,-1,
           -1,-1,-1,-1,-1,-1,-1,-1,  -1,-1,-1,-1,-1,-1,-1,-1>>

F599Btn == <<-1,-1,-1,0,1,2,3,4,  5,6,7,8,9,-1,-1,12,
             33,32,34,31,-1,-1,-1,-1,  -1,-1,-1,-1,-1,-1,-1,-1>>

\* the R383 table with the two paddles exchanged
R383Btn_swapped == <<-1,-1,-1,-1,-1,-1,-1,5,  0,4,8,-1,6,12,7,-1,
                     2,9,34,31,32,33,3,1,  -1,-1,-1,-1,-1,-1,-1,-1>>

R383Btn == <<-1,-1,-1,-1,-1,-1,-1,5,  1,4,8,-1,6,12,7,-1,
             2,9,34,31,32,33,3,0,  -1,-1,-1,-1,-1,-1,-1,-1>>

F1Btn == <<4,-1,-1,-1,0,1,2,3,  12,5,6,7,8,9,10,11,
           17,33,32,34,31,18,19,20,  -1,15,13,14,16,-1,-1,-1>>

HAT_CENTERED == 0

NumButtons == 21

ZeroFrame == <<0, 0, 0, 0, 0>>

----------------------------------------------------------------------------
(* The reference numbering of the header comment: per wheel and byte, what   *)
(* bits 7, 6, ..., 0 carry                                                   *)

Btn(n, name) == [kind |-> "button", n |-> n, name |-> name]
Dpad(dir) == [kind |-> "dpad", dir |-> dir]
Named(name) == [kind |-> "named", name |-> name]
Const == [kind |-> "constant"]
Unused == [kind |-> "unused"]
DpadFlag == [kind |-> "flag"]

RefR383 ==
    << << Const, Const, Const, Const, Const, Const, Const,
          Btn(6, "bottom right yellow") >>,
       << Btn(2, "right paddle"), Btn(5, "top right black"), Btn(9, "top right red"),
          Const, Btn(7, "bottom left red"), Btn(13, "bottom right white"),
          Btn(8, "bottom right red"), Const >>,
       << Btn(3, "bottom left yellow"), Btn(10, "top left red"), Dpad("left"),
          Dpad("up"), Dpad("right"), Dpad("down"), Btn(4, "bottom left yellow"),
          Named("left paddle") >>,
       << DpadFlag, DpadFlag, DpadFlag, DpadFlag, DpadFlag, DpadFlag, DpadFlag,
          DpadFlag >> >>

RefF1 ==
    << << Btn(5, "DRS"), Const, Const, Const, Btn(1, "left paddle"),
          Btn(2, "right paddle"), Btn(3, "N"), Btn(4, "PIT") >>,
       << Btn(13, "START"), Btn(6, "10+"), Btn(7, "B0"), Btn(8, "WET"), Btn(9, "PL"),
          Btn(10, "K"), Btn(11, "PUMP"), Btn(12, "1-") >>,
       << Btn(18, "right Dpad up"), Dpad("down"), Dpad("right"), Dpad("left"),
          Dpad("up"), Btn(19, "right Dpad down"), Btn(20, "right Dpad right"),
          Btn(21, "right Dpad left") >>,
       << Unused, Btn(16, "CHRG down"), Btn(14, "DIF IN up"), Btn(15, "DIF IN down"),
          Btn(17, "CHRG up"), Unused, Unused, Unused >> >>

Ref599 ==
    << << Const, Const, Const, Btn(1, "left paddle"), Btn(2, "right paddle"),
          Btn(3, "PIT"), Btn(4, "WASH"), Btn(5, "RADIO") >>,
       << Btn(6, "black down left"), Btn(7, "MAIN left"), Btn(8, "MAIN right"),
          Btn(9, "SCROLL"), Btn(10, "FLASH"), Const, Const, Btn(13, "MAIN pushed in") >>,
       << Dpad("down"), Dpad("right"), Dpad("left"), Dpad("up"), Const, Const, Const,
          Const >>,
       << Unused, Unused, Unused, Unused, Unused, Unused, Unused, Unused >> >>

----------------------------------------------------------------------------
(* Byte arithmetic *)

\* x & y on bytes: directly for a one-bit mask, else bit by bit from the low end
RECURSIVE BitAnd(_, _)
BitAnd(x, y) ==
    IF y \in {1, 2, 4, 8, 16, 32, 64, 128} THEN ((x \div y) % 2) * y
    ELSE IF x = 0 \/ y = 0 THEN 0
    ELSE (x % 2) * (y % 2) + 2 * BitAnd(x \div 2, y \div 2)

\* (byte) ~x
Invert(x) == (-1 - x) % 256

\* the five transfers of one poll: each byte is stored inverted
ReadFrame(raw) == [i \in 1..5 |-> Invert(raw[i])]

wheelbyteOf(f) == BitAnd(f[1], 224)
fourthbyteOf(f) == BitAnd(f[4], 32)
fifthbyteOf(f) == BitAnd(f[5], 15)

\* the while condition with the header 192 left out of it
Plugged_no192(f) == wheelbyteOf(f) = 160 \/ wheelbyteOf(f) = 32

\* the negation of the while condition: the header is one of the known ones
Plugged(f) == ~(wheelbyteOf(f) # 192 /\ wheelbyteOf(f) # 160 /\ wheelbyteOf(f) # 32)

----------------------------------------------------------------------------
(* The report sink: calls and their effect on the in-memory report *)

\* a call: op, its argument, and hat: the code convertHat was called with
\* when the call is made by convertHat, -1 otherwise
Press(b) == [op |-> "press", arg |-> b, hat |-> -1]
Release(b) == [op |-> "release", arg |-> b, hat |-> -1]
SetHat1(h) == [op |-> "setHat", arg |-> h, hat |-> -1]
SendReport == [op |-> "sendReport", arg |-> 0, hat |-> -1]

\* the effect of a call on the in-memory report
ApplyCall(rep, c) ==
    IF c.op = "press" THEN [rep EXCEPT !.buttons = @ \cup {c.arg}]
    ELSE IF c.op = "release" THEN [rep EXCEPT !.buttons = @ \ {c.arg}]
    ELSE IF c.op = "setHat" THEN [rep EXCEPT !.hat = c.arg]
    ELSE rep

RECURSIVE ApplyCalls(_, _)
ApplyCalls(rep, cs) ==
    IF cs = <<>> THEN rep ELSE ApplyCalls(ApplyCall(rep, Head(cs)), Tail(cs))

----------------------------------------------------------------------------
(* setButton and convertHat *)

\* the calls setButton makes
setButton(button, buttonState) ==
    IF buttonState = FALSE THEN <<Release(button)>>
    ELSE IF buttonState = TRUE THEN <<Press(button)>>
    ELSE <<>>

\* values an uninitialised int may hold: any int (32 bits)
Garbage == (-2147483647 - 1)..2147483647

\* the hat given in steps of one instead of the odd codes
convertHat_steps(hat) == {<<[op |-> "setHat", arg |-> hat + 1, hat |-> hat]>>}

\* the calls convertHat makes.  hatstate is an uninitialised local, assigned
\* only for the codes 0..3: for any other code setHat1 gets whatever the
\* stack held, so the result is a set of possible call sequences
convertHat(hat) ==
    IF hat = 0 \/ hat = 1 \/ hat = 2 \/ hat = 3
    THEN LET hatstate == IF hat = 0 THEN 1 ELSE IF hat = 1 THEN 3
                         ELSE IF hat = 2 THEN 5 ELSE 7
         IN  {<<[op |-> "setHat", arg |-> hatstate, hat |-> hat]>>}
    ELSE [1..1 -> [op : {"setHat"}, arg : Garbage, hat : {hat}]]

----------------------------------------------------------------------------
(* The pieces of loop() *)

\* the disconnect reset with a send of its own
ResetCalls_send ==
    <<SetHat1(HAT_CENTERED)>> \o [b \in 1..NumButtons |-> Release(b - 1)] \o <<SendReport>>

\* the disconnect reset: hat centered, then buttons 0..20 released one by one
ResetCalls ==
    <<SetHat1(HAT_CENTERED)>> \o [b \in 1..NumButtons |-> setButton(b - 1, FALSE)[1]]

\* the reset without its "do it just once" flag
ButtonsResetCalls_always(done) == ResetCalls

\* if (buttonsreset == false) { ... }: the reset runs once per loop() call
ButtonsResetCalls(done) == IF done = FALSE THEN ResetCalls ELSE <<>>

\* the 599xx test made on the whole of byte 4 instead of its low four bits
Identify_wholeByte(identified, id, table, curr) ==
    IF identified = FALSE /\ wheelbyteOf(curr) = 160 /\ curr[5] = 0
    THEN [wheelIdentified |-> TRUE, wheelID |-> 2, bit2btn |-> F599Btn]
    ELSE [wheelIdentified |-> identified, wheelID |-> id, bit2btn |-> table]

\* the 599xx taken from the header alone, without the test of byte 4
Identify_headerOnly(identified, id, table, curr) ==
    IF identified = FALSE /\ wheelbyteOf(curr) = 160
    THEN [wheelIdentified |-> TRUE, wheelID |-> 2, bit2btn |-> F599Btn]
    ELSE [wheelIdentified |-> identified, wheelID |-> id, bit2btn |-> table]

\* the 599xx identified without the copy of its table
Identify_noCopy(identified, id, table, curr) ==
    IF identified = FALSE /\ wheelbyteOf(curr) = 160 /\ fifthbyteOf(curr) = 0
    THEN [wheelIdentified |-> TRUE, wheelID |-> 2, bit2btn |-> table]
    ELSE [wheelIdentified |-> identified, wheelID |-> id, bit2btn |-> table]

\* wheel identification: the if / else-if chain that follows the while loop.
\* The else-if branches hang on the first if, so they run only when
\* wheelIdentified is already true.
Identify(identified, id, table, curr) ==
    LET same == [wheelIdentified |-> identified, wheelID |-> id, bit2btn |-> table]
    IN  IF identified = FALSE
        THEN IF wheelbyteOf(curr) = 160 /\ fifthbyteOf(curr) = 0
             THEN [wheelIdentified |-> TRUE, wheelID |-> 2, bit2btn |-> F599Btn]
             ELSE same
        ELSE IF wheelbyteOf(curr) = 32
        THEN IF (fourthbyteOf(curr) = 0 /\ fifthbyteOf(curr) = 0)
                \/ (curr[4] = 255 /\ curr[5] = 255)
             THEN [wheelIdentified |-> TRUE, wheelID |-> 3, bit2btn |-> R383Btn]
             ELSE same
        ELSE IF wheelbyteOf(curr) = 32 /\ fifthbyteOf(curr) = 15
        THEN [wheelIdentified |-> TRUE, wheelID |-> 1, bit2btn |-> F1Btn]
        ELSE same

\* the "continuous press" defect: a bit counts as changed while it is active
BitChanged_level(curr, prev, k) ==
    BitAnd(curr[(k \div 8) + 1], pos[(k % 8) + 1]) # 0

\* if ((currBytes[i] & pos[b]) != (prevBytes[i] & pos[b])), k = i*8 + b
\* (equal bytes have no changed bit: tested first, to save the bit tests)
BitChanged(curr, prev, k) ==
    /\ curr[(k \div 8) + 1] # prev[(k \div 8) + 1]
    /\ BitAnd(curr[(k \div 8) + 1], pos[(k % 8) + 1])
        # BitAnd(prev[(k \div 8) + 1], pos[(k % 8) + 1])

\* the body of that if: the call sequences it may make (a set because of
\* convertHat)
BitCalls(curr, table, k) ==
    LET btnState == BitAnd(curr[(k \div 8) + 1], pos[(k % 8) + 1]) # 0
        entry == table[k + 1]
    IN  IF entry >= 31 /\ entry <= 34
        THEN IF btnState = FALSE
             THEN {<<SetHat1(HAT_CENTERED)>>}
             ELSE convertHat(entry - 31)
        ELSE {setButton(entry, btnState)}

\* the 32 bits taken from the last one back to the first
BitOrder_reversed == [n \in 1..32 |-> 32 - n]

\* for (i = 0; i < 4; i++) for (b = 0; b < 8; b++): k = i*8 + b in this order
BitOrder == [n \in 1..32 |-> n - 1]

\* the call sequences that follow from the changed bits ch[j..]
RECURSIVE CallSeqs(_, _, _, _)
CallSeqs(curr, table, ch, j) ==
    IF j > Len(ch) THEN {<<>>}
    ELSE { c \o rest : c \in BitCalls(curr, table, ch[j]),
                           rest \in CallSeqs(curr, table, ch, j + 1) }

\* the two nested for loops: the possible call sequences
ProcessBits(curr, prev, table) ==
    CallSeqs(curr, table, SelectSeq(BitOrder, LAMBDA k : BitChanged(curr, prev, k)), 1)

\* the R383's hat pushed in the middle
JoyCondition(curr) == BitAnd(curr[4], pos[1]) # 0 /\ ~(BitAnd(curr[3], 60) # 0)

\* button 13 set from the condition alone, with no look at its previous value
JoyCalls_level(joy, prevJoy) == setButton(13, joy)

\* button 13 set from the remembered value instead of the new one
JoyCalls_prev(joy, prevJoy) == IF joy # prevJoy THEN setButton(13, prevJoy) ELSE <<>>

\* if (joyBtnState != prevJoyBtnState) setButton(13, joyBtnState)
JoyCalls(joy, prevJoy) == IF joy # prevJoy THEN setButton(13, joy) ELSE <<>>

\* everything after the while loop: identify, diff, R383 hat centre, send,
\* remember the frame.  before: the calls this step already made.
Complete(curr, identified, before) ==
    \E idn \in {Identify(identified, wheelID, bit2btn, curr)} :
    \E diff \in (IF idn.wheelIdentified
                 THEN ProcessBits(curr, prevBytes, idn.bit2btn)
                 ELSE {<<>>}) :
    \E joy \in {IF idn.wheelIdentified /\ idn.wheelID = 3
                THEN JoyCondition(curr) ELSE joyBtnState} :
    \E joyCalls \in {IF idn.wheelIdentified /\ idn.wheelID = 3
                     THEN JoyCalls(joy, prevJoyBtnState) ELSE <<>>} :
    \E made \in {before \o diff \o joyCalls} :
        /\ wheelIdentified' = idn.wheelIdentified
        /\ wheelID' = idn.wheelID
        /\ bit2btn' = idn.bit2btn
        /\ joyBtnState' = joy
        /\ prevJoyBtnState' = joy
        /\ report' = ApplyCalls(report, made)
        /\ hostReport' = report'            \* bleGamepad.sendReport()
        /\ currBytes' = curr
        /\ prevBytes' = curr
        /\ calls' = made \o <<SendReport>>
        /\ pc' = "idle"

----------------------------------------------------------------------------
(* The frames the wheel bus delivers *)

\* the control lines the model drives, as bit numbers k = i*8 + b:
\* byte 0 bit 0, byte 2 bit 7, byte 2 bit 4
Lines == {7, 16, 19}

\* what is on the bus: byte 0 (top bits), byte 3, byte 4, and the control
\* lines that may be active with it
Wheels ==
    { [pat |-> <<160, 0, 0>>, lines |-> Lines],       \* 599xx
      [pat |-> <<32, 0, 0>>, lines |-> {7, 19}],      \* R383
      [pat |-> <<32, 128, 0>>, lines |-> {19}],       \* R383, Dpad flag set
      [pat |-> <<0, 0, 0>>, lines |-> {}],            \* nothing plugged in, lines low
      [pat |-> <<224, 255, 255>>, lines |-> {}],      \* nothing plugged in, lines high
      [pat |-> <<192, 0, 0>>, lines |-> {}],          \* header 192
      [pat |-> <<160, 255, 240>>, lines |-> {}],      \* header 160, aux5 = 0, rest set
      [pat |-> <<160, 0, 15>>, lines |-> {}],         \* header 160, aux5 = 15
      [pat |-> <<32, 255, 255>>, lines |-> {}],       \* header 32, all-ones pattern
      [pat |-> <<32, 0, 15>>, lines |-> {}],          \* header 32, aux5 = 15
      [pat |-> <<32, 32, 0>>, lines |-> {}],          \* header 32, aux4 set
      [pat |-> <<32, 0, 5>>, lines |-> {}] }          \* header 32, aux5 in 1..14

RECURSIVE LineByte(_, _)
LineByte(S, i) ==
    IF S = {} THEN 0
    ELSE LET k == CHOOSE x \in S : TRUE
         IN  (IF k \div 8 = i THEN pos[(k % 8) + 1] ELSE 0) + LineByte(S \ {k}, i)

Frame(pat, S) == <<pat[1] + LineByte(S, 0), LineByte(S, 1), LineByte(S, 2), pat[2], pat[3]>>

\* the frames of the wheels above, with at most MaxActive lines active
WheelFrames ==
    UNION { { Frame(w.pat, S) : S \in {T \in SUBSET w.lines : Cardinality(T) <= MaxActive} }
            : w \in Wheels }

\* the bus can deliver any five bytes: further frames, in the order they are
\* taken into the model
ExtraOrder ==
    << <<176, 0, 0, 0, 0>>,       \* 599xx, byte 0 bit 4 (left paddle)
       <<160, 0, 64, 0, 0>>,      \* 599xx, byte 2 bit 6 (Dpad right)
       <<96, 0, 0, 0, 0>>,        \* header 96: nothing plugged in
       <<192, 0, 0, 128, 0>>,     \* header 192, byte 3 bit 7
       <<161, 0, 0, 0, 5>>,       \* header 160, byte 0 bit 0, aux5 in 1..14
       <<161, 0, 0, 0, 15>>,      \* header 160, byte 0 bit 0, aux5 = 15
       <<255, 255, 255, 255, 255>>,   \* every transfer returns 0
       <<33, 0, 0, 255, 255>>,    \* header 32, byte 0 bit 0, all-ones pattern
       <<64, 0, 0, 0, 0>>,        \* header 64
       <<128, 0, 0, 0, 0>>,       \* header 128
       <<32, 64, 0, 0, 0>> >>     \* R383, byte 1 bit 6

\* the first n further frames: those listed, in their order, and after them
\* every frame of five bytes, by the sum of its bytes (n - Len(ExtraOrder) - 1
\* at most)
ExtraFrames(n) ==
    { ExtraOrder[j] : j \in 1..(IF n <= Len(ExtraOrder) THEN n ELSE Len(ExtraOrder)) }
    \cup
    (IF n <= Len(ExtraOrder) THEN {}
     ELSE LET most == n - Len(ExtraOrder) - 1
          IN  { f \in [1..5 -> 0..(IF most <= 255 THEN most ELSE 255)] :
                    f[1] + f[2] + f[3] + f[4] + f[5] <= most })

Frames == WheelFrames \cup ExtraFrames(NumExtra)

\* what the transfers return on the wire (active low)
RawFrames == { [i \in 1..5 |-> 255 - f[i]] : f \in Frames }

----------------------------------------------------------------------------
(* The state machine *)

Init ==
    /\ currBytes = ZeroFrame
    /\ prevBytes = ZeroFrame
    /\ wheelID = 0
    /\ wheelIdentified = FALSE
    /\ buttonsreset = FALSE
    /\ joyBtnState = FALSE
    /\ prevJoyBtnState = FALSE
    /\ bit2btn = NoBtn
    /\ report = [buttons |-> {}, hat |-> HAT_CENTERED]
    /\ hostReport = [buttons |-> {}, hat |-> HAT_CENTERED]
    /\ isConnected = FALSE
    /\ pc = "idle"
    /\ calls = <<>>
    /\ cycleCalls = <<>>

\* loop() while the host is not connected: nothing happens
LoopNotConnected ==
    /\ pc = "idle"
    /\ isConnected' = FALSE
    /\ calls' = <<>>
    /\ cycleCalls' = <<>>
    /\ UNCHANGED <<currBytes, prevBytes, wheelID, wheelIdentified, buttonsreset,
                   joyBtnState, prevJoyBtnState, bit2btn, report, hostReport, pc>>

\* loop() with the host connected, up to the while loop; when the header is
\* a known one the while loop is skipped and the cycle completes
Poll(raw) ==
    /\ pc = "idle"
    /\ isConnected' = TRUE
    /\ buttonsreset' = FALSE
    /\ \E curr \in {ReadFrame(raw)} :
           IF Plugged(curr)
           THEN /\ Complete(curr, wheelIdentified, <<>>)
                /\ cycleCalls' = calls'
           ELSE /\ currBytes' = curr
                /\ pc' = "recover"
                /\ calls' = <<>>
                /\ cycleCalls' = <<>>
                /\ UNCHANGED <<prevBytes, wheelID, wheelIdentified, joyBtnState,
                               prevJoyBtnState, bit2btn, report, hostReport>>

\* one pass of the while loop: forget the wheel, reset the buttons once,
\* read again; when the header is now a known one the cycle completes
RecoverPass(raw) ==
    /\ pc = "recover"
    /\ isConnected' = isConnected
    /\ buttonsreset' = TRUE
    /\ \E reset \in {ButtonsResetCalls(buttonsreset)} :
       \E curr \in {ReadFrame(raw)} :
           IF Plugged(curr)
           THEN /\ Complete(curr, FALSE, reset)
                /\ cycleCalls' = cycleCalls \o calls'
           ELSE /\ wheelIdentified' = FALSE
                /\ report' = ApplyCalls(report, reset)
                /\ currBytes' = curr
                /\ calls' = reset
                /\ cycleCalls' = cycleCalls \o reset
                /\ pc' = "recover"
                /\ UNCHANGED <<prevBytes, wheelID, joyBtnState, prevJoyBtnState,
                               bit2btn, hostReport>>

Next ==
    \/ LoopNotConnected
    \/ \E raw \in RawFrames : Poll(raw)
    \/ \E raw \in RawFrames : RecoverPass(raw)

Spec == Init /\ [][Next]_vars

----------------------------------------------------------------------------
(* Vocabulary of the properties *)

\* how often the call op(arg) occurs in cs
Count(cs, op, arg) == Cardinality({j \in 1..Len(cs) : cs[j].op = op /\ cs[j].arg = arg})

\* how often a call of kind op occurs in cs
CountOp(cs, op) == Cardinality({j \in 1..Len(cs) : cs[j].op = op})

\* bit k = i*8 + b of frame f (b = 0 is the top bit), as 0 or 1
FrameBit(f, k) == (f[(k \div 8) + 1] \div pos[(k % 8) + 1]) % 2

\* the header of frame f
Header(f) == (f[1] \div 32) * 32

Buttons == 0..(NumButtons - 1)

\* this step is a loop() call that read a frame with a known header at once
StepPlain == pc = "idle" /\ pc' = "idle" /\ isConnected'

\* this step is the pass of the while loop that ends it
StepRecovered == pc = "recover" /\ pc' = "idle"

\* this step runs the part of loop() after the while loop
StepCompletes == StepPlain \/ StepRecovered

\* the calls of this step that come after the disconnect reset, if it ran
AfterReset ==
    IF pc = "recover" /\ ~buttonsreset
    THEN SubSeq(calls', NumButtons + 2, Len(calls'))
    ELSE calls'

----------------------------------------------------------------------------
(* C1 *)

\* C1: in a cycle that read a known header at once (no disconnect reset) and
\* has a wheel identified, for every bit the working table maps to a button B
\* in 0..20: a 0 -> 1 transition against the previous frame gives exactly one
\* press(B) and no release(B), a 1 -> 0 transition exactly one release(B) and
\* no press(B), and an unchanged bit gives neither.
C1_PressRelease ==
    [][ (StepPlain /\ wheelIdentified') =>
        \A k \in 0..31 :
            LET B == bit2btn'[k + 1]
                was == FrameBit(prevBytes, k)
                now == FrameBit(currBytes', k)
            IN  B \in Buttons =>
                  /\ (was = 0 /\ now = 1) =>
                        Count(calls', "press", B) = 1 /\ Count(calls', "release", B) = 0
                  /\ (was = 1 /\ now = 0) =>
                        Count(calls', "release", B) = 1 /\ Count(calls', "press", B) = 0
                  /\ (was = now) =>
                        Count(calls', "press", B) = 0 /\ Count(calls', "release", B) = 0
      ]_vars

\* a cycle without reset released a mapped button, pressed by an earlier
\* cycle, exactly once
C1_Witness ==
    /\ pc = "idle" /\ isConnected /\ wheelIdentified /\ ~buttonsreset
    /\ \E k \in 0..31 :
          /\ bit2btn[k + 1] \in Buttons
          /\ FrameBit(currBytes, k) = 0
          /\ Count(calls, "release", bit2btn[k + 1]) = 1
          /\ Count(calls, "press", bit2btn[k + 1]) = 0
    /\ report.buttons \cap Buttons = {}

----------------------------------------------------------------------------
(* C2 *)

\* C2: the pass of the while loop that follows the read of an unknown header
\* makes setHat(centered) and release(b), b = 0..20, once each, before anything
\* else; a later pass that reads an unknown header again makes no call; and
\* while the loop runs the report has the 21 buttons released and the hat
\* centered.
C2_ResetOnce ==
    [][ pc = "recover" =>
        /\ ~buttonsreset =>
              /\ Len(calls') >= NumButtons + 1
              /\ LET first == SubSeq(calls', 1, NumButtons + 1)
                 IN  /\ Count(first, "setHat", HAT_CENTERED) = 1
                     /\ \A b \in Buttons : Count(first, "release", b) = 1
              /\ pc' = "recover" => Len(calls') = NumButtons + 1
        /\ (buttonsreset /\ pc' = "recover") => calls' = <<>>
        /\ pc' = "recover" =>
              /\ report'.buttons \cap Buttons = {}
              /\ report'.hat = HAT_CENTERED
      ]_vars

\* a later pass of an episode that began with a button pressed on the host
C2_Witness ==
    /\ pc = "recover" /\ buttonsreset /\ calls = <<>>
    /\ cycleCalls = ResetCalls
    /\ hostReport.buttons \cap Buttons # {}
    /\ report.buttons \cap Buttons = {}
    /\ report.hat = HAT_CENTERED

----------------------------------------------------------------------------
(* C3, C4, C5: identification when no wheel is identified *)

\* no wheel is identified when this step reaches the identification
Unidentified == (pc = "idle" /\ ~wheelIdentified) \/ pc = "recover"

\* the all-ones escape pattern of bytes 3 and 4
AllOnes(f) == f[4] = 255 /\ f[5] = 255

\* C3: with no wheel identified, a cycle that processes a frame with header
\* 32 and aux5 = 15 that is not the all-ones pattern ends with the F1 wheel
\* (wheelID 1) identified and the F1 table loaded.
C3_VariantA ==
    [][ ( /\ StepCompletes /\ Unidentified
          /\ Header(currBytes') = 32
          /\ currBytes'[5] % 16 = 15
          /\ ~AllOnes(currBytes') )
        => (wheelIdentified' /\ wheelID' = 1 /\ bit2btn' = F1Btn)
      ]_vars

\* C4: with no wheel identified, a cycle that processes a frame with header
\* 32 and either the all-ones pattern or aux4 = 0 and aux5 = 0 ends with the
\* R383 wheel (wheelID 3) identified and the R383 table loaded.
C4_VariantB ==
    [][ ( /\ StepCompletes /\ Unidentified
          /\ Header(currBytes') = 32
          /\ \/ AllOnes(currBytes')
             \/ (currBytes'[4] \div 32) % 2 = 0 /\ currBytes'[5] % 16 = 0 )
        => (wheelIdentified' /\ wheelID' = 3 /\ bit2btn' = R383Btn)
      ]_vars

\* C5: with no wheel identified, a cycle that processes a frame with header
\* 160 and aux5 = 0 ends with the 599xx wheel (wheelID 2) identified and the
\* 599xx table loaded, whatever the other bits of the frame are.
C5_VariantC ==
    [][ ( /\ StepCompletes /\ Unidentified
          /\ Header(currBytes') = 160
          /\ currBytes'[5] % 16 = 0 )
        => (wheelIdentified' /\ wheelID' = 2 /\ bit2btn' = F599Btn)
      ]_vars

\* the 599xx identified at the end of an absence, from a frame whose byte 3
\* and upper half of byte 4 are all set
C5_Witness ==
    /\ pc = "idle" /\ buttonsreset
    /\ wheelIdentified /\ wheelID = 2 /\ bit2btn = F599Btn
    /\ currBytes = <<160, 0, 0, 255, 240>>

----------------------------------------------------------------------------
(* C6 *)

\* C6: every press(i) and release(i) made has i in 0..20 (so a transition of
\* a bit whose table entry is -1 makes no call).
C6_ButtonRange ==
    \A j \in 1..Len(calls) :
        calls[j].op \in {"press", "release"} => calls[j].arg \in Buttons

----------------------------------------------------------------------------
(* C7 *)

\* C7: a cycle that reads, with a known header, the very frame the previous
\* cycle ended with makes no press, release or setHat call (the R383's button
\* 13 included), whether or not a wheel is identified.
C7_SameFrame ==
    [][ (StepPlain /\ currBytes' = prevBytes /\ Header(prevBytes) \in {192, 160, 32})
        => calls' = <<SendReport>>
      ]_vars

\* the R383 with its hat pushed in the middle, button 13 down, and a cycle
\* that made no call but the send
C7_Witness ==
    /\ pc = "idle" /\ isConnected /\ ~buttonsreset
    /\ wheelIdentified /\ wheelID = 3
    /\ joyBtnState /\ 13 \in report.buttons
    /\ currBytes = prevBytes
    /\ calls = <<SendReport>>

----------------------------------------------------------------------------
(* C8 *)

\* C8: a completed cycle with the host connected has called sendReport
\* exactly once, as its last call; while the cycle is in the while loop it
\* has not called it.
C8_OneSend ==
    /\ (pc = "idle" /\ isConnected) =>
          /\ CountOp(cycleCalls, "sendReport") = 1
          /\ cycleCalls[Len(cycleCalls)].op = "sendReport"
    /\ pc = "recover" => CountOp(cycleCalls, "sendReport") = 0

\* a completed cycle that went through the reset and then made more than one
\* button or hat call
C8_Witness ==
    /\ pc = "idle" /\ isConnected /\ buttonsreset
    /\ Len(cycleCalls) > NumButtons + 4
    /\ CountOp(cycleCalls, "sendReport") = 1

----------------------------------------------------------------------------
(* C9 *)

\* the hat-tagged bits that differ between frames f and g under table t
HatBitsChanged(f, g, t) ==
    {k \in 0..31 : t[k + 1] \in 31..34 /\ FrameBit(f, k) # FrameBit(g, k)}

\* C9: for a changed bit with a hat tag 31..34 the cycle calls setHat: with 1,
\* 3, 5, 7 for tag 31, 32, 33, 34 when the bit became active, with the
\* centered value when it became inactive, one setHat per such bit; the
\* centered value is none of 1, 3, 5, 7; convertHat only gets codes 0..3.
C9_Hat ==
    [][ (StepCompletes /\ wheelIdentified') =>
        LET hb == HatBitsChanged(prevBytes, currBytes', bit2btn')
        IN  /\ \A k \in hb :
                  IF FrameBit(currBytes', k) = 1
                  THEN \E j \in 1..Len(AfterReset) :
                          /\ AfterReset[j].op = "setHat"
                          /\ AfterReset[j].hat = bit2btn'[k + 1] - 31
                          /\ AfterReset[j].arg = 2 * (bit2btn'[k + 1] - 31) + 1
                  ELSE Count(AfterReset, "setHat", HAT_CENTERED) >= 1
            /\ CountOp(AfterReset, "setHat") = Cardinality(hb)
            /\ \A j \in 1..Len(calls') :
                  /\ calls'[j].hat # -1 => calls'[j].hat \in 0..3
                  /\ (calls'[j].op = "setHat" /\ calls'[j].hat = -1) =>
                        calls'[j].arg = HAT_CENTERED
            /\ HAT_CENTERED \notin {1, 3, 5, 7}
      ]_vars

\* one cycle saw a direction become active (down, code 5) and another (up)
\* become inactive
C9_Witness ==
    /\ pc = "idle" /\ wheelIdentified /\ ~buttonsreset
    /\ \E j \in 1..Len(calls) : calls[j].op = "setHat" /\ calls[j].hat = 2 /\ calls[j].arg = 5
    /\ Count(calls, "setHat", HAT_CENTERED) = 1

----------------------------------------------------------------------------
(* C10 *)

\* what the reference says of bit bitNumber (7..0) of byte byteIndex (0..3)
RefAt(ref, byteIndex, bitNumber) == ref[byteIndex + 1][8 - bitNumber]

\* the table entry of that bit
TableAt(table, byteIndex, bitNumber) == table[byteIndex * 8 + (7 - bitNumber) + 1]

\* the hat tag of a direction
DirTag(dir) ==
    IF dir = "up" THEN 31 ELSE IF dir = "right" THEN 32
    ELSE IF dir = "down" THEN 33 ELSE 34

\* table agrees with ref on every bit
Agrees(table, ref) ==
    \A byteIndex \in 0..3, bitNumber \in 0..7 :
        LET r == RefAt(ref, byteIndex, bitNumber)
            e == TableAt(table, byteIndex, bitNumber)
        IN  /\ r.kind = "button" => e = r.n - 1
            /\ r.kind = "dpad" => e = DirTag(r.dir)
            /\ r.kind \in {"constant", "unused"} => e = -1
            /\ (r.kind \in {"button", "named"} /\ r.name = "left paddle") => e = 0
            /\ (r.kind \in {"button", "named"} /\ r.name = "right paddle") => e = 1

\* ref names both paddles
HasPaddles(ref) ==
    \A name \in {"left paddle", "right paddle"} :
        \E byteIndex \in 0..3, bitNumber \in 0..7 :
            LET r == RefAt(ref, byteIndex, bitNumber)
            IN  r.kind \in {"button", "named"} /\ r.name = name

\* the reference of the wheel with this wheelID
RefOf(id) == IF id = 1 THEN RefF1 ELSE IF id = 2 THEN Ref599 ELSE RefR383

\* C10: each of the three tables has, for every bit the reference gives an
\* official button number N, the entry N - 1; for every Dpad direction its hat
\* tag (31 up, 32 right, 33 down, 34 left); for every constant or unused bit
\* -1; and 0 for the left paddle, 1 for the right paddle.  The same is true of
\* the working table of an identified wheel against that wheel's reference.
C10_Tables ==
    /\ Agrees(R383Btn, RefR383) /\ HasPaddles(RefR383)
    /\ Agrees(F1Btn, RefF1) /\ HasPaddles(RefF1)
    /\ Agrees(F599Btn, Ref599) /\ HasPaddles(Ref599)
    /\ wheelIdentified => Agrees(bit2btn, RefOf(wheelID))

\* the R383 table at work: a line the reference numbers N became active and
\* button N - 1 was pressed
C10_Witness ==
    /\ pc = "idle" /\ wheelIdentified /\ wheelID = 3 /\ bit2btn = R383Btn
    /\ \E byteIndex \in 0..3, bitNumber \in 0..7 :
          LET r == RefAt(RefR383, byteIndex, bitNumber)
          IN  /\ r.kind = "button"
              /\ FrameBit(currBytes, byteIndex * 8 + (7 - bitNumber)) = 1
              /\ Count(calls, "press", r.n - 1) = 1

----------------------------------------------------------------------------
(* C11 *)

\* the three disambiguation rules, on a frame
Rule1(f) == Header(f) = 160 /\ f[5] % 16 = 0
Rule2(f) == Header(f) = 32 /\ (((f[4] \div 32) % 2 = 0 /\ f[5] % 16 = 0) \/ AllOnes(f))
Rule3(f) == Header(f) = 32 /\ f[5] % 16 = 15

\* a known header, and none of the rules applies
NoRule(f) == Header(f) \in {192, 160, 32} /\ ~Rule1(f) /\ ~Rule2(f) /\ ~Rule3(f)

\* the calls in cs that reach the report: setHat, and press or release of a
\* button 0..20
Emissions(cs) ==
    SelectSeq(cs, LAMBDA c : c.op = "setHat"
                             \/ (c.op \in {"press", "release"} /\ c.arg \in Buttons))

\* this step leaves the identification as it was
SameIdentification ==
    wheelIdentified' = wheelIdentified /\ wheelID' = wheelID /\ bit2btn' = bit2btn

\* C11 (as claimed): a cycle that reads at once a frame with a known header
\* that matches none of the three rules makes no press, release or setHat
\* call, does not run the disconnect reset, and leaves the identification as
\* it was.  (Calls made for unmapped bits are not held against it here.)
C11_NoEmission ==
    [][ (StepPlain /\ NoRule(currBytes'))
        => (Emissions(calls') = <<>> /\ SameIdentification)
      ]_vars

\* C11 (amended): the same for a cycle that starts with no wheel identified;
\* such a cycle makes no call at all but the send.
C11_NoEmissionUnidentified ==
    [][ (StepPlain /\ ~wheelIdentified /\ NoRule(currBytes'))
        => (calls' = <<SendReport>> /\ SameIdentification)
      ]_vars

\* after an absence that ended the 599xx: a frame with header 32 and aux5 = 5
\* has been read, nothing but the send was called, and no wheel is identified
C11_Witness ==
    /\ pc = "idle" /\ isConnected /\ ~buttonsreset
    /\ ~wheelIdentified /\ wheelID = 2 /\ bit2btn = F599Btn
    /\ NoRule(currBytes) /\ Header(currBytes) = 32 /\ currBytes[5] % 16 = 5
    /\ calls = <<SendReport>>

----------------------------------------------------------------------------
(* C12 *)

\* C12: the cycle that ends an absence and identifies a wheel does not diff
\* the new frame against the frame kept from before the absence: after it,
\* every button 0..20 whose bit is active in the new frame is pressed in the
\* report, also when that bit was active in the last frame before the absence.
C12_NoStaleDiff ==
    [][ (StepRecovered /\ wheelIdentified') =>
        \A k \in 0..31 :
            (bit2btn'[k + 1] \in Buttons /\ FrameBit(currBytes', k) = 1)
                => bit2btn'[k + 1] \in report'.buttons
      ]_vars

----------------------------------------------------------------------------
(* C13 *)

\* C13: with a wheel identified, a cycle that reads a known header at once
\* leaves the wheel identified, with the same wheelID and working table; and
\* a pass of the while loop that reads an unknown header again leaves no wheel
\* identified.
C13_StableIdentity ==
    [][ /\ (StepPlain /\ wheelIdentified) => (wheelIdentified' /\ SameIdentification)
        /\ (pc = "recover" /\ pc' = "recover") => ~wheelIdentified'
      ]_vars

----------------------------------------------------------------------------
(* C14 *)

\* the hat-centre condition on a frame: byte 3 bit 7 active, byte 2 & 0x3C = 0
HatCentre(f) == f[4] \div 128 = 1 /\ (f[3] \div 4) % 16 = 0

\* the R383 is the identified wheel
IsR383(identified, id) == identified /\ id = 3

----------------------------------------------------------------------------
(* C15 *)

\* the bits mapped to a button 0..20 by table t that differ between f and g
ButtonBitsChanged(f, g, t) ==
    {k \in 0..31 : t[k + 1] \in Buttons /\ FrameBit(f, k) # FrameBit(g, k)}

\* C15: every pass of the while loop reads a whole new frame, and the loop is
\* left by exactly the pass that reads a header 192,
\* 160 or 32; that pass completes the cycle: it identifies (the 599xx on
\* header 160 with aux5 = 0, else no wheel), diffs against the previous frame
\* when a wheel is identified, sends the report once, as its last call, and
\* stores the frame as the previous one.  A pass that reads another header
\* stays in the loop, and there is no state of the loop without a next pass.
C15_Recovery ==
    /\ [][ pc = "recover" =>
            /\ \E raw \in RawFrames : currBytes' = [i \in 1..5 |-> 255 - raw[i]]
            /\ pc' = "idle" <=> Header(currBytes') \in {192, 160, 32}
            /\ pc' # "idle" => pc' = "recover" /\ prevBytes' = prevBytes
            /\ pc' = "idle" =>
                  /\ wheelIdentified' <=> Rule1(currBytes')
                  /\ wheelIdentified' => wheelID' = 2 /\ bit2btn' = F599Btn
                  /\ wheelIdentified' =>
                        \A k \in ButtonBitsChanged(prevBytes, currBytes', bit2btn') :
                            Count(AfterReset, "press", bit2btn'[k + 1])
                              + Count(AfterReset, "release", bit2btn'[k + 1]) = 1
                  /\ CountOp(calls', "sendReport") = 1
                  /\ calls'[Len(calls')].op = "sendReport"
                  /\ hostReport' = report'
                  /\ prevBytes' = currBytes'
          ]_vars
    /\ [](pc = "recover" => ENABLED (\E raw \in RawFrames : RecoverPass(raw)))

\* the loop was left by a later pass than its first (the reset was made by
\* an earlier pass), with the 599xx identified and a button pressed again
C15_Witness ==
    /\ pc = "idle" /\ isConnected /\ buttonsreset
    /\ wheelIdentified /\ wheelID = 2
    /\ CountOp(calls, "release") = 0 /\ CountOp(calls, "press") >= 1
    /\ Len(cycleCalls) = NumButtons + 1 + Len(calls)
    /\ report.buttons \cap Buttons # {}
    /\ prevBytes = currBytes

----------------------------------------------------------------------------
(* C16 *)

\* C16: while the wheel is absent and the disconnect reset has been made, the
\* host has received the reset report: no button 0..20 pressed, hat centered.
C16_ResetFlushed ==
    (pc = "recover" /\ buttonsreset) =>
        /\ hostReport.buttons \cap Buttons = {}
        /\ hostReport.hat = HAT_CENTERED

----------------------------------------------------------------------------
(* C17 *)

\* C17: at the end of a cycle with a wheel identified, every button 0..20 of
\* the working table is pressed in the report exactly when its bit is active
\* in the current frame.
C17_ReportTracksFrame ==
    (pc = "idle" /\ isConnected /\ wheelIdentified) =>
        \A k \in 0..31 :
            bit2btn[k + 1] \in Buttons =>
                (bit2btn[k + 1] \in report.buttons <=> FrameBit(currBytes, k) = 1)

----------------------------------------------------------------------------
(* C18 *)

\* the hat-tagged bits of table t that are active in frame f
HatBitsActive(f, t) == {k \in 0..31 : t[k + 1] \in 31..34 /\ FrameBit(f, k) = 1}

\* the hat of the report agrees with the current frame: centered exactly when
\* no hat-tagged bit of the working table is active, and otherwise the code
\* (1, 3, 5, 7) of a direction whose bit is active
HatAgrees ==
    LET active == HatBitsActive(currBytes, bit2btn)
    IN  IF active = {}
        THEN report.hat = HAT_CENTERED
        ELSE \E k \in active : report.hat = 2 * (bit2btn[k + 1] - 31) + 1

\* C18: at the end of every cycle with a wheel identified the hat of the
\* report agrees with the current frame.  Stated for the cycles the claim
\* names: the wheel was identified before the cycle and stays the same, and
\* the hat agreed with the frame of the cycle before; direction bits may set
\* and clear in the same frame, and one of two active ones may clear.
C18_HatTracksFrame ==
    [][ (StepPlain /\ wheelIdentified /\ SameIdentification /\ HatAgrees)
        => HatAgrees'
      ]_vars

----------------------------------------------------------------------------
(* C19 *)

\* the constant table of the wheel with this wheelID
TableOf(id) == IF id = 1 THEN F1Btn ELSE IF id = 2 THEN F599Btn ELSE R383Btn

\* t is a table of 32 entries, each -1, a button 0..20 or a hat tag 31..34
WellFormed(t) ==
    /\ Len(t) = 32
    /\ \A k \in 1..32 : t[k] = -1 \/ t[k] \in Buttons \/ t[k] \in 31..34

\* C19: in every reachable state the working table has 32 entries, each -1,
\* a button index 0..20 or a hat tag 31..34, as have the three constant
\* tables (which no step writes), and when a wheel is identified its wheelID
\* is 1, 2 or 3 and the working table equals, entry by entry, the constant
\* table of that wheelID (1 F1, 2 599xx, 3 R383).
C19_WorkingTable ==
    /\ WellFormed(bit2btn)
    /\ WellFormed(F1Btn) /\ WellFormed(F599Btn) /\ WellFormed(R383Btn)
    /\ wheelIdentified =>
          /\ wheelID \in 1..3
          /\ \A k \in 1..32 : bit2btn[k] = TableOf(wheelID)[k]

\* the 599xx identified at the end of an absence, after the R383 had been at
\* work (its hat centre is still remembered): the working table was replaced
C19_Witness ==
    /\ pc = "idle" /\ isConnected /\ buttonsreset
    /\ wheelIdentified /\ wheelID = 2 /\ bit2btn = F599Btn
    /\ joyBtnState

----------------------------------------------------------------------------
(* C20 *)

\* the places of a frame in the claimed order: byte 0 before byte 1 before
\* byte 2 before byte 3, within a byte from bit 7 down to bit 0
Scan == [n \in 1..32 |-> [byte |-> (n - 1) \div 8, bit |-> 7 - ((n - 1) % 8)]]

\* the value (0 or 1) of that place in frame f, and its entry in table t
ValueAt(f, p) == (f[p.byte + 1] \div (2 ^ p.bit)) % 2
EntryAt(t, p) == t[p.byte * 8 + (7 - p.bit) + 1]

\* a call as an event: what was called, with what
Ev(c) == <<c.op, c.arg>>

\* the event of a changed place p with a button or hat entry
EventAt(f, t, p) ==
    LET e == EntryAt(t, p)
    IN  IF e \in 31..34
        THEN IF ValueAt(f, p) = 1 THEN <<"setHat", 2 * (e - 31) + 1>>
             ELSE <<"setHat", HAT_CENTERED>>
        ELSE IF ValueAt(f, p) = 1 THEN <<"press", e>> ELSE <<"release", e>>

\* the events of the cycle that diffs frame f against g under table t, in
\* the claimed order
DiffEvents(f, g, t) ==
    LET changed == SelectSeq(Scan, LAMBDA p : /\ ValueAt(f, p) # ValueAt(g, p)
                                                /\ EntryAt(t, p) # -1)
    IN  [j \in 1..Len(changed) |-> EventAt(f, t, changed[j])]

\* the event of the R383's hat centre, if any
HatCentreEvent(f, identified, id, remembered) ==
    IF IsR383(identified, id) /\ HatCentre(f) # remembered
    THEN IF HatCentre(f) THEN << <<"press", 13>> >> ELSE << <<"release", 13>> >>
    ELSE <<>>

\* C20: the button and hat events of a cycle (after the disconnect reset, if
\* it ran) are exactly the events of the changed mapped bits, byte 0 to byte
\* 3 and within a byte bit 7 down to bit 0, then the R383 hat-centre event if
\* there is one, and the send is the last call of the cycle.  The sequence is
\* a function of the previous frame, the current frame, the working table
\* and the remembered hat-centre state, so the same frames give it again.
C20_Order ==
    [][ StepCompletes =>
        LET made == Emissions(AfterReset)
            expected ==
                (IF wheelIdentified'
                 THEN DiffEvents(currBytes', prevBytes, bit2btn') ELSE <<>>)
                \o HatCentreEvent(currBytes', wheelIdentified', wheelID',
                                  prevJoyBtnState)
        IN  /\ [j \in 1..Len(made) |-> Ev(made[j])] = expected
            /\ Ev(calls'[Len(calls')]) = <<"sendReport", 0>>
            /\ CountOp(calls', "sendReport") = 1
      ]_vars

\* an R383 cycle: a button of byte 0 released, then the hat of byte 2
\* centered, then button 13 pressed, then the send
C20_Witness ==
    /\ pc = "idle" /\ isConnected /\ ~buttonsreset
    /\ IsR383(wheelIdentified, wheelID)
    /\ LET made == Emissions(calls)
       IN  [j \in 1..Len(made) |-> Ev(made[j])]
             = << <<"release", 5>>, <<"setHat", HAT_CENTERED>>, <<"press", 13>> >>
    /\ calls[Len(calls)].op = "sendReport"

====
